---- MODULE Spec2Model ----
(***************************************************************************)
(* Model of streamlit_app.py: the "Analyze Accent" button handler and the  *)
(* three functions it calls (download_audio, load_classifier,              *)
(* analyze_accent), run by two browser sessions of one server process.     *)
(*                                                                         *)
(* Numbers.  A raw score is an integer count of halves (score 1 is 0.5).   *)
(* A confidence is an integer count of 1/10000 of a percent, so 100.0 %    *)
(* is 1000000 and a value rounded to two decimals is a multiple of 100.    *)
(***************************************************************************)
EXTENDS Integers, Sequences, FiniteSets, TLC

VARIABLES
    pc,          \* per session: position of the script run
    video_url,   \* per session: the text input's value of the current run
    tmpdir,      \* per session: name bound by "with TemporaryDirectory() as tmpdir"
    audio_path,  \* per session: value returned by download_audio (<<>> is None)
    classifier,  \* per session: value returned by load_classifier (0 is unset)
    fault,       \* per session: str(e) of the exception analyze_accent caught ("" is none)
    modelOut,    \* per session: what classifier.classify_batch returned
    result,      \* per session: the dict returned by analyze_accent
    propagated,  \* per session: exception that left the script run ("" is none)
    rendered,    \* per session: the elements the current run put on the page
    called,      \* per session: the functions the current run invoked
    scratch,     \* the temporary directories of the file system
    cache,       \* st.cache_resource entry of load_classifier (0 is empty)
    registry,    \* number of EncoderClassifier.from_hparams resolutions
    requests     \* number of runs triggered so far

vars == <<pc, video_url, tmpdir, audio_path, classifier, fault, modelOut, result,
          propagated, rendered, called, scratch, cache, registry, requests>>

\* ------------------------------------------------------------------ bounds

MaxRequests == 3
NumDirNames == 2

Sessions == {"s1", "s2"}
DirNames == 1..NumDirNames

\* ------------------------------------------------------------- label table

ACCENT_MAPPING ==
    [c \in {"african", "australia", "bermuda", "canada", "england", "hongkong",
            "indian", "ireland", "malaysia", "newzealand", "philippines",
            "scotland", "singapore", "southatlandtic", "us", "wales"} |->
       CASE c = "african" -> "African English"
         [] c = "australia" -> "Australian English"
         [] c = "bermuda" -> "Bermudan English"
         [] c = "canada" -> "Canadian English"
         [] c = "england" -> "British English (England)"
         [] c = "hongkong" -> "Hong Kong English"
         [] c = "indian" -> "Indian English"
         [] c = "ireland" -> "Irish English"
         [] c = "malaysia" -> "Malaysian English"
         [] c = "newzealand" -> "New Zealand English"
         [] c = "philippines" -> "Philippine English"
         [] c = "scotland" -> "Scottish English"
         [] c = "singapore" -> "Singaporean English"
         [] c = "southatlandtic" -> "South Atlantic English"
         [] c = "us" -> "American English (US)"
         [] c = "wales" -> "Welsh English"]

\* Label codes absent from the table that a model may still return.
UnmappedLabels == {"india", "southatlantic"}

AllLabels == DOMAIN ACCENT_MAPPING \cup UnmappedLabels

\* A lookup that returns the raw code of a mapped label.
mapping_get_raw(label) ==
    IF label \in DOMAIN ACCENT_MAPPING THEN label ELSE "Unknown (" \o label \o ")"

\* A lookup whose fallback drops the raw code.
mapping_get_nocode(label) ==
    IF label \in DOMAIN ACCENT_MAPPING THEN ACCENT_MAPPING[label] ELSE "Unknown"

\* ACCENT_MAPPING.get(label, f"Unknown ({label})")
mapping_get(label) ==
    IF label \in DOMAIN ACCENT_MAPPING
    THEN ACCENT_MAPPING[label]
    ELSE "Unknown (" \o label \o ")"

\* ------------------------------------------------------------- arithmetic

\* Raw scores (in halves): -10.0, -2.0, -1.0, -0.5, 0.0, 0.5, 1.0.
AllScores == {-20, -4, -2, -1, 0, 1, 2}

\* torch.max(score): the largest entry of a non-empty score vector.
torch_max(score) ==
    CHOOSE m \in {score[i] : i \in DOMAIN score} :
        \A i \in DOMAIN score : score[i] <= m

\* float(x.exp().item()) * 100, in 1/10000 percent.
exp_times_100(s) ==
    CASE s = -20 -> 45
      [] s = -4 -> 135335
      [] s = -2 -> 367879
      [] s = -1 -> 606531
      [] s = 0 -> 1000000
      [] s = 1 -> 1648721
      [] s = 2 -> 2718282

\* round(x, 2): to the nearest hundredth of a percent, ties to even.
round2(x) ==
    LET q == x \div 100
        r == x % 100
    IN IF r > 50 \/ (r = 50 /\ q % 2 = 1) THEN (q + 1) * 100 ELSE q * 100

Digit(d) ==
    CASE d = 0 -> "0" [] d = 1 -> "1" [] d = 2 -> "2" [] d = 3 -> "3"
      [] d = 4 -> "4" [] d = 5 -> "5" [] d = 6 -> "6" [] d = 7 -> "7"
      [] d = 8 -> "8" [] d = 9 -> "9"

RECURSIVE IntStr(_)
IntStr(n) == IF n < 10 THEN Digit(n) ELSE IntStr(n \div 10) \o Digit(n % 10)

\* str() of a float that has at most two decimals (100.0, 13.5, 36.79).
float_str(x) ==
    LET h == x \div 100
        whole == h \div 100
        frac == h % 100
    IN IntStr(whole) \o "." \o
       (IF frac % 10 = 0 THEN Digit(frac \div 10)
        ELSE Digit(frac \div 10) \o Digit(frac % 10))

\* ------------------------------------------------------------ file system

NoFile == [writer |-> "", kind |-> "none"]
Absent == [creator |-> "", audio |-> NoFile]

\* What yt-dlp can leave at the output path when it exits 0.
DownloadedKinds == {"mono16k", "stereo44k", "corrupt"}

\* os.path.join(output_dir, "audio.wav"), resolved.
path_join(output_dir) == <<output_dir, "audio.wav">>

\* The file a path names: nothing for None or for a directory that is gone.
file_at(fs, path) ==
    IF path = <<>> THEN NoFile
    ELSE IF fs[path[1]].creator = "" THEN NoFile
    ELSE fs[path[1]].audio

\* tempfile keeps the directory: the exit of the with block removes nothing.
cleanup_skipped(fs, d) == fs

\* TemporaryDirectory.__exit__: the directory and all it holds are removed.
cleanup(fs, d) == [fs EXCEPT ![d] = Absent]

\* A scratch location that is the same for every request.
mkdtemp_fixed(fs) == {1}

\* tempfile.mkdtemp: a name no existing directory has.
mkdtemp(fs) == {d \in DirNames : fs[d].creator = ""}

\* --------------------------------------------------------- analyze_accent

DefaultResult ==
    [classification |-> "Undetermined",
     confidence_score |-> 0,
     summary |-> "Unable to determine accent."]

Faults == {"none", "decode", "downmix", "resample", "inference", "score"}

\* str(e) of the exception each step raises.
ExcText(f) ==
    CASE f = "decode" -> "Error opening audio file"
      [] f = "downmix" -> "mean(): could not reduce"
      [] f = "resample" -> "resample kernel failed"
      [] f = "inference" -> "classify_batch failed"
      [] f = "score" -> "max(): empty tensor"

\* torchaudio.load: (channels, sample rate) of a decodable file.
torchaudio_load(file) ==
    CASE file.kind = "mono16k" -> [ok |-> TRUE, channels |-> 1, sr |-> 16000]
      [] file.kind = "stereo44k" -> [ok |-> TRUE, channels |-> 2, sr |-> 44100]
      [] OTHER -> [ok |-> FALSE, channels |-> 0, sr |-> 0]

\* The body of the try block, lines 139-162: the exception it raises ("" when it
\* runs to its end) and the result dict as it stands at that point.
analyze_try(file, flt, out) ==
    LET loaded == torchaudio_load(file)
        raise(f) == [raised |-> ExcText(f), result |-> DefaultResult]
    IN IF ~loaded.ok \/ flt = "decode" THEN raise("decode")
       ELSE IF loaded.channels > 1 /\ flt = "downmix" THEN raise("downmix")
       ELSE IF loaded.sr # 16000 /\ flt = "resample" THEN raise("resample")
       ELSE IF flt = "inference" THEN raise("inference")
       ELSE IF out.text_lab = <<>> THEN [raised |-> "", result |-> DefaultResult]
       ELSE IF flt = "score" THEN raise("score")
       ELSE LET label == out.text_lab[1]
                confidence == exp_times_100(torch_max(out.score))
                classification == mapping_get(label)
                confidence_score == round2(confidence)
            IN [raised |-> "",
                result |->
                  [classification |-> classification,
                   confidence_score |-> confidence_score,
                   summary |->
                     "The speaker's accent was classified as **" \o classification
                     \o "** with a confidence score of **"
                     \o float_str(confidence_score) \o "%**."]]

\* An except clause that lets the exception of the inference call through.
analyze_accent_narrow(fs, path, flt, out) ==
    LET t == analyze_try(file_at(fs, path), flt, out)
    IN IF t.raised = "" THEN [ret |-> t.result, raised |-> "", exc |-> ""]
       ELSE IF t.raised = ExcText("inference")
       THEN [ret |-> t.result, raised |-> t.raised, exc |-> t.raised]
       ELSE [ret |-> [t.result EXCEPT !.summary = "Error during analysis: " \o t.raised],
             raised |-> t.raised, exc |-> ""]

\* analyze_accent(audio_path, classifier): ret is the returned dict, raised the
\* exception the try block raised, exc the exception that reaches the caller.
analyze_accent(fs, path, flt, out) ==
    LET t == analyze_try(file_at(fs, path), flt, out)
    IN IF t.raised = "" THEN [ret |-> t.result, raised |-> "", exc |-> ""]
       ELSE [ret |-> [t.result EXCEPT !.summary = "Error during analysis: " \o t.raised],
             raised |-> t.raised, exc |-> ""]

\* -------------------------------------------------------- load_classifier

\* A loader with no cache in front of it: every call resolves the model again.
load_classifier_uncached(c, reg, ok) ==
    IF ok THEN [ret |-> reg + 1, cache |-> reg + 1, registry |-> reg + 1, exc |-> ""]
    ELSE [ret |-> 0, cache |-> c, registry |-> reg + 1, exc |-> "model source unreachable"]

\* A cache that also stores the failure of a load (as handle -1) and replays it.
load_classifier_sticky(c, reg, ok) ==
    IF c > 0 THEN [ret |-> c, cache |-> c, registry |-> reg, exc |-> ""]
    ELSE IF c < 0 THEN [ret |-> 0, cache |-> c, registry |-> reg, exc |-> "model source unreachable"]
    ELSE IF ok
    THEN [ret |-> reg + 1, cache |-> reg + 1, registry |-> reg + 1, exc |-> ""]
    ELSE [ret |-> 0, cache |-> -1, registry |-> reg + 1, exc |-> "model source unreachable"]

\* load_classifier() under st.cache_resource, which computes a missing entry
\* under a lock and stores it only when the function returns.  c is the cache
\* entry, reg the resolutions so far, ok whether from_hparams succeeds; a handle
\* is numbered by the resolution that built it.
load_classifier(c, reg, ok) ==
    IF c # 0 THEN [ret |-> c, cache |-> c, registry |-> reg, exc |-> ""]
    ELSE IF ok
    THEN [ret |-> reg + 1, cache |-> reg + 1, registry |-> reg + 1, exc |-> ""]
    ELSE [ret |-> 0, cache |-> 0, registry |-> reg + 1, exc |-> "model source unreachable"]

\* ----------------------------------------------------------------- page

st_error(msg) == [kind |-> "st.error", body |-> <<msg>>]

\* The result-box markdown of lines 184-191.
result_box(res) ==
    [kind |-> "result-box",
     body |-> <<"Classification: " \o res.classification,
                "Confidence Score: " \o float_str(res.confidence_score) \o "%",
                res.summary>>]

FailedMessage == "Failed to download or process audio. Please check the URL and try again."

\* ------------------------------------------------------------ the handler

Urls == {"", "not a url", "https://youtu.be/abc123"}

\* Exceptions of subprocess.run(command, check=True).
DownloadErrors == {"yt-dlp returned non-zero exit status 1", "No such file or directory: 'yt-dlp'"}

NoOut == [text_lab |-> <<>>, score |-> <<>>]
NoResult == [classification |-> "", confidence_score |-> 0, summary |-> ""]

\* The inputs the two-session runs draw the model's answer from.
PipelineLabels == {"us", "scotland", "india"}
PipelineScores == {-20, -2, 0, 1}

\* A test that sends every request down the classification branch.
truthy_always(path) == TRUE

\* "if audio_path:" -- None is the only falsy value download_audio returns.
truthy(path) == path # <<>>

Init ==
    /\ pc = [s \in Sessions |-> "idle"]
    /\ video_url = [s \in Sessions |-> ""]
    /\ tmpdir = [s \in Sessions |-> 0]
    /\ audio_path = [s \in Sessions |-> <<>>]
    /\ classifier = [s \in Sessions |-> 0]
    /\ fault = [s \in Sessions |-> ""]
    /\ modelOut = [s \in Sessions |-> NoOut]
    /\ result = [s \in Sessions |-> NoResult]
    /\ propagated = [s \in Sessions |-> ""]
    /\ rendered = [s \in Sessions |-> <<>>]
    /\ called = [s \in Sessions |-> {}]
    /\ scratch = [d \in DirNames |-> Absent]
    /\ cache = 0
    /\ registry = 0
    /\ requests = 0

\* Line 175-177: the button is pressed with a non-empty URL; the script run
\* starts afresh and the with block creates the temporary directory.
ClickAnalyze(s) ==
    /\ pc[s] = "idle"
    /\ requests < MaxRequests
    /\ \E url \in Urls, d \in mkdtemp(scratch) :
         /\ url # ""
         /\ video_url' = [video_url EXCEPT ![s] = url]
         /\ tmpdir' = [tmpdir EXCEPT ![s] = d]
         /\ scratch' = [scratch EXCEPT ![d] = [creator |-> s, audio |-> NoFile]]
    /\ audio_path' = [audio_path EXCEPT ![s] = <<>>]
    /\ classifier' = [classifier EXCEPT ![s] = 0]
    /\ fault' = [fault EXCEPT ![s] = ""]
    /\ modelOut' = [modelOut EXCEPT ![s] = NoOut]
    /\ result' = [result EXCEPT ![s] = NoResult]
    /\ propagated' = [propagated EXCEPT ![s] = ""]
    /\ rendered' = [rendered EXCEPT ![s] = <<>>]
    /\ called' = [called EXCEPT ![s] = {}]
    /\ requests' = requests + 1
    /\ pc' = [pc EXCEPT ![s] = "download"]
    /\ UNCHANGED <<cache, registry>>

\* Line 178, download_audio(video_url, tmpdir): yt-dlp either exits 0 and
\* leaves a file at the path, or the call raises, st.error shows the exception
\* and None is returned (a partial file may stay behind in the directory).
DownloadAudio(s) ==
    /\ pc[s] = "download"
    /\ LET p == path_join(tmpdir[s])
       IN \/ /\ video_url[s] # "not a url"
             /\ \E k \in DownloadedKinds :
                  scratch' = [scratch EXCEPT ![p[1]].audio = [writer |-> s, kind |-> k]]
             /\ audio_path' = [audio_path EXCEPT ![s] = p]
             /\ UNCHANGED rendered
          \/ /\ \E e \in DownloadErrors :
                  rendered' = [rendered EXCEPT
                                 ![s] = Append(@, st_error("Audio extraction error: " \o e))]
             /\ \E partial \in BOOLEAN :
                  scratch' = IF partial
                             THEN [scratch EXCEPT
                                     ![p[1]].audio = [writer |-> s, kind |-> "partial"]]
                             ELSE scratch
             /\ audio_path' = [audio_path EXCEPT ![s] = <<>>]
    /\ called' = [called EXCEPT ![s] = @ \cup {"download_audio"}]
    /\ pc' = [pc EXCEPT ![s] = "branch"]
    /\ UNCHANGED <<video_url, tmpdir, classifier, fault, modelOut, result, propagated,
                   cache, registry, requests>>

\* Lines 179-180: the path is truthy and load_classifier() is called.  When it
\* raises, the exception leaves the with block (which removes the directory)
\* and the script run.
LoadClassifier(s) ==
    /\ pc[s] = "branch"
    /\ truthy(audio_path[s])
    /\ \E ok \in BOOLEAN :
         LET l == load_classifier(cache, registry, ok)
         IN /\ cache' = l.cache
            /\ registry' = l.registry
            /\ classifier' = [classifier EXCEPT ![s] = l.ret]
            /\ IF l.exc = ""
               THEN /\ pc' = [pc EXCEPT ![s] = "analyze"]
                    /\ UNCHANGED <<scratch, propagated>>
               ELSE /\ pc' = [pc EXCEPT ![s] = "idle"]
                    /\ scratch' = cleanup(scratch, tmpdir[s])
                    /\ propagated' = [propagated EXCEPT ![s] = l.exc]
    /\ called' = [called EXCEPT ![s] = @ \cup {"load_classifier"}]
    /\ UNCHANGED <<video_url, tmpdir, audio_path, fault, modelOut, result, rendered,
                   requests>>

\* Line 181, analyze_accent(audio_path, classifier), the model's answer drawn
\* from Labels (or no label at all) and Scores.
AnalyzeAccent(s, Labels, Scores) ==
    /\ pc[s] = "analyze"
    /\ \E flt \in Faults, lab \in Labels \cup {""}, sc \in Scores :
         LET out == [text_lab |-> IF lab = "" THEN <<>> ELSE <<lab>>, score |-> <<sc>>]
             a == analyze_accent(scratch, audio_path[s], flt, out)
         IN /\ fault' = [fault EXCEPT ![s] = a.raised]
            /\ modelOut' = [modelOut EXCEPT
                              ![s] = IF a.raised \in {"", ExcText("score")}
                                     THEN out ELSE NoOut]
            /\ IF a.exc = ""
               THEN /\ result' = [result EXCEPT ![s] = a.ret]
                    /\ pc' = [pc EXCEPT ![s] = "render"]
                    /\ UNCHANGED <<scratch, propagated>>
               ELSE /\ pc' = [pc EXCEPT ![s] = "idle"]
                    /\ scratch' = cleanup(scratch, tmpdir[s])
                    /\ propagated' = [propagated EXCEPT ![s] = a.exc]
                    /\ UNCHANGED result
    /\ called' = [called EXCEPT ![s] = @ \cup {"analyze_accent"}]
    /\ UNCHANGED <<video_url, tmpdir, audio_path, classifier, rendered, cache, registry,
                   requests>>

\* Lines 184-191: the result box is rendered; the with block then ends and
\* removes the directory.
RenderResult(s) ==
    /\ pc[s] = "render"
    /\ rendered' = [rendered EXCEPT ![s] = Append(@, result_box(result[s]))]
    /\ scratch' = cleanup(scratch, tmpdir[s])
    /\ pc' = [pc EXCEPT ![s] = "idle"]
    /\ UNCHANGED <<video_url, tmpdir, audio_path, classifier, fault, modelOut, result,
                   propagated, called, cache, registry, requests>>

\* Lines 192-193: the path is None; the failure message is shown and the with
\* block ends.
ReportFailure(s) ==
    /\ pc[s] = "branch"
    /\ ~truthy(audio_path[s])
    /\ rendered' = [rendered EXCEPT ![s] = Append(@, st_error(FailedMessage))]
    /\ scratch' = cleanup(scratch, tmpdir[s])
    /\ pc' = [pc EXCEPT ![s] = "idle"]
    /\ UNCHANGED <<video_url, tmpdir, audio_path, classifier, fault, modelOut, result,
                   propagated, called, cache, registry, requests>>

Next ==
    \E s \in Sessions :
        \/ ClickAnalyze(s)
        \/ DownloadAudio(s)
        \/ LoadClassifier(s)
        \/ AnalyzeAccent(s, PipelineLabels, PipelineScores)
        \/ RenderResult(s)
        \/ ReportFailure(s)

Spec == Init /\ [][Next]_vars

\* analyze_accent on its own: one session that has downloaded a file and holds
\* the classifier, the model's answer drawn from every label and score.
InitAnalyze ==
    /\ pc = [s \in Sessions |-> IF s = "s1" THEN "analyze" ELSE "idle"]
    /\ video_url = [s \in Sessions |-> IF s = "s1" THEN "https://youtu.be/abc123" ELSE ""]
    /\ \E d \in DirNames, k \in DownloadedKinds :
         /\ tmpdir = [s \in Sessions |-> IF s = "s1" THEN d ELSE 0]
         /\ audio_path = [s \in Sessions |-> IF s = "s1" THEN path_join(d) ELSE <<>>]
         /\ scratch = [e \in DirNames |->
                         IF e = d
                         THEN [creator |-> "s1", audio |-> [writer |-> "s1", kind |-> k]]
                         ELSE Absent]
    /\ classifier = [s \in Sessions |-> IF s = "s1" THEN 1 ELSE 0]
    /\ fault = [s \in Sessions |-> ""]
    /\ modelOut = [s \in Sessions |-> NoOut]
    /\ result = [s \in Sessions |-> NoResult]
    /\ propagated = [s \in Sessions |-> ""]
    /\ rendered = [s \in Sessions |-> <<>>]
    /\ called = [s \in Sessions |->
                   IF s = "s1" THEN {"download_audio", "load_classifier"} ELSE {}]
    /\ cache = 1
    /\ registry = 1
    /\ requests = 1

NextAnalyze ==
    \/ AnalyzeAccent("s1", AllLabels, AllScores)
    \/ RenderResult("s1")

SpecAnalyze == InitAnalyze /\ [][NextAnalyze]_vars

\* ----------------------------------------------------------------- claims

Live == {"download", "branch", "analyze", "render"}

\* The session's latest run has ended.
Finished(s) == pc[s] = "idle" /\ video_url[s] # ""

\* analyze_accent has returned to the handler in the session's current run.
Analyzed(s) == "analyze_accent" \in called[s] /\ propagated[s] = ""

Shows(s, kind) == \E i \in DOMAIN rendered[s] : rendered[s][i].kind = kind

ShowsFailure(s) ==
    \E i \in DOMAIN rendered[s] : rendered[s][i] = st_error(FailedMessage)

MappingValues == {ACCENT_MAPPING[c] : c \in DOMAIN ACCENT_MAPPING}

\* C1: when download_audio returns no path, the run calls neither
\* load_classifier nor analyze_accent, renders no result box, and ends with the
\* failure message on the page.
C1_AcquisitionFailureSkipsClassification ==
    \A s \in Sessions :
        ("download_audio" \in called[s] /\ audio_path[s] = <<>>) =>
            /\ "load_classifier" \notin called[s]
            /\ "analyze_accent" \notin called[s]
            /\ ~Shows(s, "result-box")
            /\ (Finished(s) => ShowsFailure(s))

C1_Witness ==
    \E s \in Sessions :
        /\ Finished(s)
        /\ called[s] = {"download_audio"}
        /\ audio_path[s] = <<>>
        /\ ShowsFailure(s)

\* C2: no exception leaves analyze_accent; whenever a step inside it raised
\* (decode, downmix, resample, inference, score conversion), the returned dict
\* has classification "Undetermined", confidence_score 0.0 and the summary
\* "Error during analysis: " followed by the exception's text.
C2_AnalyzeNeverRaises ==
    \A s \in Sessions :
        "analyze_accent" \in called[s] =>
            /\ propagated[s] = ""
            /\ (fault[s] # "" =>
                   /\ result[s].classification = "Undetermined"
                   /\ result[s].confidence_score = 0
                   /\ result[s].summary = "Error during analysis: " \o fault[s]
                   /\ Len(result[s].summary) > Len("Error during analysis: "))

C2_Witness ==
    /\ pc["s1"] = "render"
    /\ fault["s1"] = ExcText("inference")
    /\ result["s1"].classification = "Undetermined"
    /\ result["s1"].summary = "Error during analysis: classify_batch failed"

\* C3: the classification of every returned dict is a value of ACCENT_MAPPING,
\* or "Unknown (<code>)", or "Undetermined"; and an "Undetermined" result has
\* confidence_score 0.0.
C3_ClassificationWellFormed ==
    \A s \in Sessions :
        Analyzed(s) =>
            /\ \/ result[s].classification \in MappingValues
               \/ \E c \in AllLabels : result[s].classification = "Unknown (" \o c \o ")"
               \/ result[s].classification = "Undetermined"
            /\ (result[s].classification = "Undetermined" =>
                   result[s].confidence_score = 0)

C3_Witness ==
    /\ pc["s1"] = "render"
    /\ fault["s1"] = ""
    /\ modelOut["s1"].text_lab = <<>>
    /\ modelOut["s1"].score = <<1>>
    /\ result["s1"] = DefaultResult

\* C4: the confidence_score of every returned dict lies in [0.0, 100.0] and has
\* at most two decimals.
C4_ConfidenceInRange ==
    \A s \in Sessions :
        Analyzed(s) =>
            /\ 0 <= result[s].confidence_score
            /\ result[s].confidence_score <= 1000000
            /\ result[s].confidence_score % 100 = 0

\* C5: when the model returns the label code c and nothing raises, the
\* classification is ACCENT_MAPPING[c] for each of the sixteen mapped codes and
\* "Unknown (c)" for any other code.
C5_LabelMapped ==
    /\ Cardinality(DOMAIN ACCENT_MAPPING) = 16
    /\ \A s \in Sessions :
         (Analyzed(s) /\ fault[s] = "" /\ modelOut[s].text_lab # <<>>) =>
             LET c == modelOut[s].text_lab[1]
             IN IF c \in DOMAIN ACCENT_MAPPING
                THEN result[s].classification = ACCENT_MAPPING[c]
                ELSE result[s].classification = "Unknown (" \o c \o ")"

C5_Witness ==
    /\ pc["s1"] = "idle"
    /\ modelOut["s1"].text_lab = <<"southatlantic">>
    /\ result["s1"].classification = "Unknown (southatlantic)"
    /\ Shows("s1", "result-box")

\* C6: once a run has ended -- by acquisition failure, by a rendered result
\* (classified or undetermined) or by an exception of load_classifier -- the
\* directory it created and every file it wrote are gone.
C6_ScratchRemoved ==
    \A s \in Sessions :
        pc[s] = "idle" =>
            \A d \in DirNames :
                scratch[d].creator # s /\ scratch[d].audio.writer # s

C6_Witness ==
    /\ Finished("s1")
    /\ truthy(audio_path["s1"])
    /\ propagated["s1"] = "model source unreachable"
    /\ Finished("s2")
    /\ fault["s2"] # ""
    /\ Shows("s2", "result-box")
    /\ \A d \in DirNames : scratch[d] = Absent

\* C7: once load_classifier has returned a handle, no later step resolves the
\* model again or replaces the cached handle, and every handle a session holds
\* is the cached one.
C7_LoadedAtMostOnce ==
    [][/\ cache # 0 => (cache' = cache /\ registry' = registry)
       /\ \A s \in Sessions : classifier'[s] # 0 => classifier'[s] = cache']_vars

C7_Witness ==
    /\ registry = 1
    /\ cache = 1
    /\ Finished("s1")
    /\ classifier["s1"] = 1
    /\ pc["s2"] = "analyze"
    /\ classifier["s2"] = 1

\* C8: the cache entry changes only when a load succeeds (from empty to the new
\* handle); a run that ends in a failure leaves it as it was; a call that finds
\* the cache empty resolves the model again; and a run past load_classifier
\* holds the cached handle.
C8_FailuresIsolated ==
    [][/\ cache' # cache =>
             /\ cache = 0
             /\ cache' > 0
             /\ \E s \in Sessions : classifier'[s] = cache' /\ propagated'[s] = ""
       /\ \A s \in Sessions :
             ("load_classifier" \in called'[s] /\ "load_classifier" \notin called[s]
                /\ cache = 0) => registry' = registry + 1
       /\ \A s \in Sessions :
             pc'[s] \in {"analyze", "render"} =>
                 (classifier'[s] = cache' /\ cache' > 0)]_vars

C8_Witness ==
    /\ Finished("s1")
    /\ propagated["s1"] = "model source unreachable"
    /\ registry = 2
    /\ cache = 2
    /\ Finished("s2")
    /\ classifier["s2"] = 2
    /\ Shows("s2", "result-box")

\* C9: every ended run shows a result box or the failure message, and shows a
\* result box whenever download_audio returned a path.
C9_AlwaysAPanel ==
    \A s \in Sessions :
        Finished(s) =>
            /\ truthy(audio_path[s]) => Shows(s, "result-box")
            /\ Shows(s, "result-box") \/ ShowsFailure(s)

\* C10: a run in progress owns its directory: it was created by this run, no
\* other run in progress has the same one, the path handed to download_audio
\* and analyze_accent is audio.wav inside it, and the file there was written by
\* this run.
C10_ScratchExclusive ==
    \A s \in Sessions :
        pc[s] \in Live =>
            /\ scratch[tmpdir[s]].creator = s
            /\ scratch[tmpdir[s]].audio.writer \in {"", s}
            /\ \A t \in Sessions \ {s} : pc[t] \in Live => tmpdir[t] # tmpdir[s]
            /\ truthy(audio_path[s]) =>
                   /\ audio_path[s] = <<tmpdir[s], "audio.wav">>
                   /\ file_at(scratch, audio_path[s]).writer = s

C10_Witness ==
    /\ pc["s1"] = "analyze"
    /\ pc["s2"] = "analyze"
    /\ tmpdir["s1"] # tmpdir["s2"]
    /\ audio_path["s1"][2] = "audio.wav"
    /\ audio_path["s2"][2] = "audio.wav"
    /\ file_at(scratch, audio_path["s1"]).writer = "s1"
    /\ file_at(scratch, audio_path["s2"]).writer = "s2"

====
